---- MODULE Spec2Model ----
(***************************************************************************)
(* Model of republicprotocol/store:                                        *)
(*   - memdb/rrdb: the capacity-bounded in-memory store with random        *)
(*     replacement and its snapshot iterator;                              *)
(*   - cache/ttl:  the TTL decorator over a generic keyed store, with its  *)
(*     slot index, prune pointer, sweep and scheduler.                     *)
(* The two components share no state.  `component` says which of the two   *)
(* objects a behaviour exercises, so that the state space of a             *)
(* specification covering both is their sum and not their product.         *)
(***************************************************************************)
EXTENDS Integers, Sequences, FiniteSets, TLC

VARIABLES
    component,  \* "rrdb" or "ttl": the object under exercise
    \* ---- rrdb (struct rrdb) ----
    cap,        \* rrdb.cap
    data,       \* rrdb.data : map[string][]byte
    \* ---- iterator (struct iterator), the one most recently returned ----
    iterMade,   \* an iterator has been returned by Iterator()
    iter,       \* [index, keys, values]
    \* ---- observations of the caller (history) ----
    snap,       \* rrdb.data at the moment of the last Iterator() call
    yielded,    \* the (key, value) pairs the loop `for iter.Next()` has read
    lastNext,   \* result of the most recent Next(): "none", "true", "false"
    last,       \* the last call on the rrdb or its iterator, with its result
    \* ---- cache/ttl ----
    now,        \* time.Now().UnixNano()
    db,         \* the underlying db.DB: physical key -> stored bytes
    tables,     \* names of the TTL tables constructed over db (struct inMemTTL)
    sched,      \* per table: state of the goroutine runPruneOnInterval
    nextTick,   \* per table: the time at which ticker.C next delivers
    ctxDone,    \* per table: ctx.Done() is closed
    faults,     \* the underlying store may return errors in this behaviour
    born,       \* logical key -> time of the Insert that wrote its present value
    tlast,      \* the last call on a TTL table or sweep, with its result
    flight,     \* calls in progress: an Insert between its writes, a sweep between its steps
    built       \* per table name: how many times New has constructed it over db,
                \* and the pointer the latest New has left in db

rrVars == <<cap, data, iterMade, iter, snap, yielded, lastNext, last>>
ttlVars == <<now, db, tables, sched, nextTick, ctxDone, faults, born, tlast, flight, built>>
vars == <<component, rrVars, ttlVars>>

\* ------------------------------------------------------------------ bounds
MaxCap == 2       \* capacities 0..MaxCap are constructed
MaxOverrun == 1   \* calls of Next() past the end of the snapshot
Interval == 2     \* pruneInterval, in clock units (nanoseconds)
StartSlot == 9    \* the slot in which the first table is constructed
MaxSlots == 2     \* the clock runs over the slots StartSlot .. StartSlot + MaxSlots - 1
MaxLifeSlots == 4 \* the same, where tables are constructed again
MaxBuilds == 2    \* constructions of a table of one name

\* ------------------------------------------------------------ rrdb: values
NonEmptyKeys == {"a", "b", "c"}
Keys == {""} \cup NonEmptyKeys
Values == {<<1>>, <<2>>}                \* []byte payloads: two one-byte slices
nilBytes == << >>                       \* the nil []byte

ErrNil == "nil"
ErrEmptyKey == "ErrEmptyKey"
ErrNotFound == "ErrNotFound"
ErrIndexOutOfRange == "ErrIndexOutOfRange"

len(d) == Cardinality(DOMAIN d)

\* The call just made: its name, arguments and results, and what the caller
\* can tell of its effect on the map: whether the key was in the map before
\* the call, and the keys that were in the map before and are not after.
Call(op, key, value, err, out, before, after) ==
    [op |-> op, key |-> key, value |-> value, err |-> err, out |-> out,
     had |-> key \in DOMAIN before,
     full |-> Cardinality(DOMAIN before) >= cap,
     lost |-> (DOMAIN before) \ (DOMAIN after)]

NoCall == [op |-> "New", key |-> "", value |-> << >>, err |-> "nil", out |-> << >>,
           had |-> FALSE, full |-> FALSE, lost |-> {}]

\* delete(rrdb.data, key)
deleteKeyFrom(d, key) == [k \in DOMAIN d \ {key} |-> d[k]]

\* rrdb.data[key] = value
store(d, key, value) == [k \in DOMAIN d \cup {key} |-> IF k = key THEN value ELSE d[k]]

\* `for deleteKey := range rrdb.data { ...; break }`: the keys the range may
\* produce first.  Go leaves the order of a map range unspecified, so any key
\* of the map; none when the guard is false or the map is empty.
NoVictim == "<none>"
firstOfRange(d, c) == IF len(d) >= c /\ DOMAIN d # {} THEN DOMAIN d ELSE {NoVictim}

\* Mutant of evict: the capacity test is dropped, nothing is ever evicted.
evictNever(d, c, deleteKey) == d

\* Mutant of evict: the `break` is missing, the range deletes every key.
evictAll(d, c, deleteKey) == IF len(d) >= c THEN << >> ELSE d

\* if len(rrdb.data) >= rrdb.cap { delete the first key of the range }
evict(d, c, deleteKey) ==
    IF len(d) >= c /\ deleteKey \in DOMAIN d THEN deleteKeyFrom(d, deleteKey) ELSE d

\* Mutant of insertLocked: the store comes first and the eviction after it, so
\* the range may produce the key just stored.
storeThenEvict(d, c, key, value, deleteKey) ==
    LET d1 == store(d, key, value)
    IN  IF len(d1) > c THEN deleteKeyFrom(d1, key) ELSE d1

\* The map after the locked part of Insert: evict, then store.
insertLocked(d, c, key, value, deleteKey) == store(evict(d, c, deleteKey), key, value)

\* Mutant of insert: the test for the empty key is missing.
insertAnyKey(d, c, key, value, deleteKey) ==
    [err |-> ErrNil, data |-> insertLocked(d, c, key, value, deleteKey)]

\* rrdb.Insert: what it returns and the map it leaves.
insert(d, c, key, value, deleteKey) ==
    IF key = ""
    THEN [err |-> ErrEmptyKey, data |-> d]
    ELSE [err |-> ErrNil, data |-> insertLocked(d, c, key, value, deleteKey)]

\* rrdb.Get
get(d, key) ==
    IF key \notin DOMAIN d
    THEN [err |-> ErrNotFound, out |-> nilBytes]
    ELSE [err |-> ErrNil, out |-> d[key]]

\* Mutant of delete: the map is replaced by an empty one.
deleteClears(d, key) == IF key \in DOMAIN d THEN << >> ELSE d

\* rrdb.Delete: the map it leaves (it always returns nil).
delete(d, key) == deleteKeyFrom(d, key)

\* The sequences that list the set S once each: the orders in which a range
\* over a map with key set S may run.
RECURSIVE rangeOrders(_)
rangeOrders(S) ==
    IF S = {} THEN {<< >>}
    ELSE UNION {{<<k>> \o rest : rest \in rangeOrders(S \ {k})} : k \in S}

\* Mutant of newIterator: the values are collected by a second range over the
\* map, which runs in another order than the one that collected the keys.
newIteratorTwoRanges(d, order) ==
    [index  |-> -1,
     keys   |-> order,
     values |-> [i \in 1..Len(order) |-> d[order[Len(order) + 1 - i]]]]

\* newIterator: copies the map, in range order, into two fresh slices.
newIterator(d, order) ==
    [index  |-> -1,
     keys   |-> order,
     values |-> [i \in 1..Len(order) |-> d[order[i]]]]

\* iterator.Next: the iterator after it, and what it returns.
next(it) ==
    LET it1 == [it EXCEPT !.index = @ + 1]
    IN  [iter |-> it1, ok |-> it1.index < Len(it1.keys)]

\* iterator.Key (the slices are 0-based in the source, 1-based here)
key(it) ==
    IF it.index = -1 THEN [err |-> ErrIndexOutOfRange, out |-> ""]
    ELSE IF it.index >= Len(it.keys) THEN [err |-> ErrIndexOutOfRange, out |-> ""]
    ELSE [err |-> ErrNil, out |-> it.keys[it.index + 1]]

\* Mutant of value: past the end it returns a nil value and no error.
valueNoEndCheck(it) ==
    IF it.index = -1 THEN [err |-> ErrIndexOutOfRange, out |-> nilBytes]
    ELSE IF it.index >= Len(it.keys) THEN [err |-> ErrNil, out |-> nilBytes]
    ELSE [err |-> ErrNil, out |-> it.values[it.index + 1]]

\* iterator.Value
value(it) ==
    IF it.index = -1 THEN [err |-> ErrIndexOutOfRange, out |-> nilBytes]
    ELSE IF it.index >= Len(it.keys) THEN [err |-> ErrIndexOutOfRange, out |-> nilBytes]
    ELSE [err |-> ErrNil, out |-> it.values[it.index + 1]]

NoTCall == [op |-> "none", table |-> "", key |-> << >>, value |-> << >>, err |-> "nil",
            out |-> << >>, lost |-> {}, slots |-> << >>]

\* No Insert and no sweep is in progress.
NoFlight == [ins |-> [pc |-> "idle"], sw |-> [pc |-> "idle"]]

NoIter == [index |-> -1, keys |-> << >>, values |-> << >>]

\* ------------------------------------------------------------- ttl: strings
\* Strings that are formatted, concatenated or matched by prefix are
\* sequences of characters.
HasPrefix(s, p) == Len(s) >= Len(p) /\ SubSeq(s, 1, Len(p)) = p
TrimPrefix(s, p) == SubSeq(s, Len(p) + 1, Len(s))

Digit == <<"0", "1", "2", "3", "4", "5", "6", "7", "8", "9">>

\* fmt's %d of a non-negative / of any integer
RECURSIVE FormatNat(_)
FormatNat(n) == IF n < 10 THEN <<Digit[n + 1]>> ELSE FormatNat(n \div 10) \o <<Digit[(n % 10) + 1]>>
FormatInt(i) == IF i < 0 THEN <<"-">> \o FormatNat(-i) ELSE FormatNat(i)

\* Go's integer division truncates toward zero.
GoDiv(a, b) == IF a >= 0 THEN a \div b ELSE -((-a) \div b)

\* var PrunePointerKey = "prunePointer"
PrunePointerKey == <<"p", "r", "u", "n", "e", "P", "o", "i", "n", "t", "e", "r">>

\* Logical keys given to a TTL table; "" is the empty key.
TKeys == {<< >>, <<"a">>, <<"b">>}
TableNames == {"A", "B"}

\* sha3.Sum256([]byte(name)) as a string: 32 bytes that depend on the name
\* alone; two names do not collide, and the bytes are no text that the key
\* formats or a logical key here contain.
nameHash(name) == <<"sha3:" \o name>>

\* type Pointer int64
PointerBytes == 8

\* binary.Write(buf, binary.LittleEndian, p): the PointerBytes bytes of p in
\* two's complement, least significant first.
RECURSIVE littleEndian(_, _)
littleEndian(n, count) ==
    IF count = 0 THEN << >> ELSE <<n % 256>> \o littleEndian(n \div 256, count - 1)

MarshalBinary(p) ==
    IF p >= 0 THEN littleEndian(p, PointerBytes)
    ELSE [i \in 1..PointerBytes |-> 255 - littleEndian(-p - 1, PointerBytes)[i]]

RECURSIVE fromLittleEndian(_)
fromLittleEndian(bytes) ==
    IF bytes = << >> THEN 0 ELSE Head(bytes) + 256 * fromLittleEndian(Tail(bytes))

ErrCannotReadPointer == "cannot read pointer"
ErrKeyNotFound == "ErrKeyNotFound"
ErrUnderlying == "underlying store error"
ErrInsertingTTLData == "error inserting ttl data"

\* binary.Read(buf, binary.LittleEndian, p): fails when fewer than
\* PointerBytes bytes are given, reads the first PointerBytes otherwise.
UnmarshalBinary(bytes) ==
    IF Len(bytes) < PointerBytes THEN [err |-> ErrCannotReadPointer, p |-> 0]
    ELSE LET b == SubSeq(bytes, 1, PointerBytes)
         IN  IF b[PointerBytes] < 128
             THEN [err |-> ErrNil, p |-> fromLittleEndian(b)]
             ELSE [err |-> ErrNil,
                   p |-> -(fromLittleEndian([i \in 1..PointerBytes |-> 255 - b[i]]) + 1)]

\* inMemTTL.slotNo, for a moment given in clock units
slotNo(moment) == GoDiv(moment, Interval)

\* inMemTTL.keyWithSlotPrefix: fmt.Sprintf("%v_slot%d_%v", nameHash, i, key)
keyWithSlotPrefix(t, k, i) ==
    nameHash(t) \o <<"_", "s", "l", "o", "t">> \o FormatInt(i) \o <<"_">> \o k

\* inMemTTL.keyWithPrefix: fmt.Sprintf("ttlDataTable_%v", name)
keyWithPrefix(name) ==
    <<"t", "t", "l", "D", "a", "t", "a", "T", "a", "b", "l", "e", "_">> \o name

\* ---------------------------------------------- ttl: the underlying db.DB
\* The generic keyed store the table is built over (spec section 6).
dbInsert(d, k, v) == [x \in DOMAIN d \cup {k} |-> IF x = k THEN v ELSE d[x]]
dbDelete(d, k) == [x \in DOMAIN d \ {k} |-> d[x]]
dbGet(d, k) ==
    IF k \in DOMAIN d THEN [err |-> ErrNil, out |-> d[k]]
    ELSE [err |-> ErrKeyNotFound, out |-> << >>]
dbSize(d, prefix) == Cardinality({k \in DOMAIN d : HasPrefix(k, prefix)})
\* The keys an Iterator(prefix) runs over: those with the prefix, without it.
dbIterator(d, prefix) == {TrimPrefix(k, prefix) : k \in {x \in DOMAIN d : HasPrefix(x, prefix)}}

\* ------------------------------------------------------- ttl: the handlers
\* A handler runs its calls on the underlying store one after the other.  st
\* is the store as the handler has left it so far, the number n of calls it
\* has made, the error of the last one and the slots a sweep has enumerated.  f says which call fails: the
\* f-th one, none when f = 0.
St(d) == [db |-> d, n |-> 0, err |-> ErrNil, slots |-> << >>]
dbCall(st, f, after) ==
    IF st.n + 1 = f
    THEN [st EXCEPT !.n = st.n + 1, !.err = ErrUnderlying]
    ELSE [st EXCEPT !.db = after, !.n = st.n + 1, !.err = ErrNil]

\* Mutant of ttlInsert: the marker is written first, the value after it.
ttlInsertMarkerFirst(d, t, k, v, tm, f) ==
    IF k = << >> THEN [err |-> ErrEmptyKey, db |-> d]
    ELSE LET slot == slotNo(tm)
             s1 == dbCall(St(d), f, dbInsert(d, keyWithSlotPrefix(t, k, slot), << >>))
         IN  IF s1.err # ErrNil THEN [err |-> ErrInsertingTTLData, db |-> s1.db]
             ELSE LET s2 == dbCall(s1, f, dbInsert(s1.db, keyWithPrefix(k), v))
                  IN  [err |-> s2.err, db |-> s2.db]

\* inMemTTL.Insert at time tm
ttlInsert(d, t, k, v, tm, f) ==
    IF k = << >> THEN [err |-> ErrEmptyKey, db |-> d]
    ELSE LET s1 == dbCall(St(d), f, dbInsert(d, keyWithPrefix(k), v))
         IN  IF s1.err # ErrNil THEN [err |-> ErrInsertingTTLData, db |-> s1.db]
             ELSE LET slot == slotNo(tm)
                      s2 == dbCall(s1, f, dbInsert(s1.db, keyWithSlotPrefix(t, k, slot), << >>))
                  IN  [err |-> s2.err, db |-> s2.db]

\* inMemTTL.Get
ttlGet(d, t, k, f) ==
    IF k = << >> THEN [err |-> ErrEmptyKey, out |-> << >>]
    ELSE LET s1 == dbCall(St(d), f, d)
         IN  IF s1.err # ErrNil THEN [err |-> s1.err, out |-> << >>]
             ELSE dbGet(d, keyWithPrefix(k))

\* Mutant of ttlDelete: every key of the store that ends with "_" and the
\* logical key is removed, the markers of the key as well as its value.
ttlDeleteWithMarkers(d, t, k, f) ==
    IF k = << >> THEN [err |-> ErrEmptyKey, db |-> d]
    ELSE LET gone == {x \in DOMAIN d : /\ Len(x) > Len(k)
                                        /\ SubSeq(x, Len(x) - Len(k) + 1, Len(x)) = k
                                        /\ x[Len(x) - Len(k)] = "_"}
             s1 == dbCall(St(d), f, [x \in (DOMAIN d) \ gone |-> d[x]])
         IN  [err |-> s1.err, db |-> s1.db]

\* inMemTTL.Delete
ttlDelete(d, t, k, f) ==
    IF k = << >> THEN [err |-> ErrEmptyKey, db |-> d]
    ELSE LET s1 == dbCall(St(d), f, dbDelete(d, keyWithPrefix(k)))
         IN  [err |-> s1.err, db |-> s1.db]

\* inMemTTL.Size
ttlSize(d, t, f) ==
    LET s1 == dbCall(St(d), f, d)
    IN  IF s1.err # ErrNil THEN [err |-> s1.err, out |-> 0]
        ELSE [err |-> ErrNil, out |-> dbSize(d, keyWithPrefix(<< >>))]

\* inMemTTL.Iterator: the keys the returned iterator runs over
ttlIterator(d, t) == dbIterator(d, keyWithPrefix(<< >>))

\* Mutant of prunePointer: a new table starts with the current slot as pointer.
prunePointerCurrentSlot(t, st, tm, f) ==
    LET pk == keyWithSlotPrefix(t, PrunePointerKey, 0)
        s1 == dbCall(st, f, st.db)
        r  == dbGet(st.db, pk)
    IN  IF s1.err # ErrNil THEN [pointer |-> 0, err |-> s1.err, st |-> s1]
        ELSE IF r.err = ErrKeyNotFound
        THEN LET slot == slotNo(tm)
                 s2 == dbCall(s1, f, dbInsert(s1.db, pk, MarshalBinary(slot)))
             IN  [pointer |-> slot, err |-> s2.err, st |-> s2]
        ELSE LET u == UnmarshalBinary(r.out)
             IN  [pointer |-> u.p, err |-> u.err, st |-> [s1 EXCEPT !.err = u.err]]

\* inMemTTL.prunePointer at time tm, continuing the handler state st: the
\* pointer and error it returns, and the handler state after it.
prunePointer(t, st, tm, f) ==
    LET pk == keyWithSlotPrefix(t, PrunePointerKey, 0)
        s1 == dbCall(st, f, st.db)
        r  == dbGet(st.db, pk)
    IN  IF s1.err # ErrNil THEN [pointer |-> 0, err |-> s1.err, st |-> s1]
        ELSE IF r.err = ErrKeyNotFound
        THEN LET slot == slotNo(tm)
                 s2 == dbCall(s1, f, dbInsert(s1.db, pk, MarshalBinary(slot - 1)))
             IN  [pointer |-> slot - 1, err |-> s2.err, st |-> s2]
        ELSE LET u == UnmarshalBinary(r.out)
             IN  [pointer |-> u.p, err |-> u.err, st |-> [s1 EXCEPT !.err = u.err]]

\* The order in which an iterator of the underlying store produces keys is
\* not specified: ord lists the logical keys in that order; a key that ord
\* does not list comes after those it lists.
RECURSIVE inOrder(_, _)
inOrder(S, ord) ==
    IF ord = << >> THEN (CHOOSE rest \in rangeOrders(S) : TRUE)
    ELSE IF Head(ord) \in S THEN <<Head(ord)>> \o inOrder(S \ {Head(ord)}, Tail(ord))
    ELSE inOrder(S, Tail(ord))

\* prune, the inner loop `for iter.Next()` over the keys still to come
RECURSIVE pruneKeys(_, _, _, _, _)
pruneKeys(t, st, slot, keys, f) ==
    IF keys = << >> THEN st
    ELSE LET k  == Head(keys)
             s1 == dbCall(st, f, st.db)                                   \* iter.Key()
             s2 == dbCall(s1, f, dbDelete(s1.db, keyWithPrefix(k)))
             s3 == dbCall(s2, f, dbDelete(s2.db, keyWithSlotPrefix(t, k, slot)))
         IN  IF s1.err # ErrNil THEN s1
             ELSE IF s2.err # ErrNil THEN s2
             ELSE IF s3.err # ErrNil THEN s3
             ELSE pruneKeys(t, s3, slot, Tail(keys), f)

\* Mutant of pruneSlots: the loop stops before the last slot (slot < newSlotToDelete).
RECURSIVE pruneSlotsExclusive(_, _, _, _, _, _)
pruneSlotsExclusive(t, st, slot, newSlotToDelete, f, ord) ==
    IF slot >= newSlotToDelete \/ st.err # ErrNil THEN st
    ELSE LET slotTable == keyWithSlotPrefix(t, << >>, slot)
             keys == inOrder(dbIterator(st.db, slotTable), ord)
             here == [st EXCEPT !.slots = Append(@, slot)]
         IN  pruneSlotsExclusive(t, pruneKeys(t, here, slot, keys, f), slot + 1, newSlotToDelete, f, ord)

\* prune, the outer loop `for slot := pointer + 1; slot <= newSlotToDelete; slot++`
RECURSIVE pruneSlots(_, _, _, _, _, _)
pruneSlots(t, st, slot, newSlotToDelete, f, ord) ==
    IF slot > newSlotToDelete \/ st.err # ErrNil THEN st
    ELSE LET slotTable == keyWithSlotPrefix(t, << >>, slot)
             keys == inOrder(dbIterator(st.db, slotTable), ord)
             here == [st EXCEPT !.slots = Append(@, slot)]
         IN  pruneSlots(t, pruneKeys(t, here, slot, keys, f), slot + 1, newSlotToDelete, f, ord)

\* Mutant of cutoff: the cutoff lags two slots further behind.
cutoffLagging(tm) == slotNo(tm - Interval) - 2

\* prune: newSlotToDelete := slotNo(time.Now().Add(-pruneInterval))
cutoff(tm) == slotNo(tm - Interval)

\* Mutant of prune: the loop starts at the pointer, a slot already swept.
pruneFromPointer(t, st, pointer, tm, f, ord) ==
    LET newSlotToDelete == cutoff(tm)
        s1 == pruneSlots(t, st, pointer, newSlotToDelete, f, ord)
    IN  IF s1.err # ErrNil THEN s1
        ELSE dbCall(s1, f, dbInsert(s1.db, keyWithSlotPrefix(t, PrunePointerKey, 0),
                                   MarshalBinary(newSlotToDelete)))

\* inMemTTL.prune at time tm
prune(t, st, pointer, tm, f, ord) ==
    LET newSlotToDelete == cutoff(tm)
        s1 == pruneSlots(t, st, pointer + 1, newSlotToDelete, f, ord)
    IN  IF s1.err # ErrNil THEN s1
        ELSE dbCall(s1, f, dbInsert(s1.db, keyWithSlotPrefix(t, PrunePointerKey, 0),
                                   MarshalBinary(newSlotToDelete)))

\* runPruneOnInterval, the case <-ticker.C at time tm: what becomes of the
\* goroutine and of the store.
sweep(d, t, tm, f, ord) ==
    LET pp == prunePointer(t, St(d), tm, f)
    IN  IF pp.err # ErrNil
        THEN [sched |-> "panicked", err |-> pp.err, db |-> pp.st.db, n |-> pp.st.n,
              pointer |-> pp.pointer, slots |-> << >>]
        ELSE LET r == prune(t, pp.st, pp.pointer, tm, f, ord)
             IN  [sched |-> IF r.err # ErrNil THEN "returned" ELSE "running",
                  err |-> r.err, db |-> r.db, n |-> r.n, pointer |-> pp.pointer,
                  slots |-> r.slots]

\* New at time tm over the store d: the store it leaves, and whether it
\* panicked.
New(d, t, tm, f) ==
    LET pp == prunePointer(t, St(d), tm, f)
    IN  [db |-> pp.st.db, err |-> pp.err, n |-> pp.st.n, pointer |-> pp.pointer]

\* time.NewTicker(pruneInterval): ticks are sent every Interval from the
\* creation of the ticker; the channel holds one tick and the ticker drops
\* those the receiver is too slow for.  The tick after one received at tm:
tickAfter(tick, tm) == tick + Interval * (1 + ((tm - tick) \div Interval))

\* The calls a handler may have fail: any, when the store may fail.
FaultPoints(calls) == IF faults THEN 0..calls ELSE {0}

TCall(op, t, k, v, err, out, before, after) ==
    [op |-> op, table |-> t, key |-> k, value |-> v, err |-> err, out |-> out,
     lost |-> (DOMAIN before) \ (DOMAIN after), slots |-> << >>]

\* born after a handler: the keys whose value is no longer stored are
\* dropped, those in `wrote` are stamped with the time.
Born(after, wrote) ==
    [k \in {x \in (DOMAIN born) \cup wrote : keyWithPrefix(x) \in DOMAIN after} |->
        IF k \in wrote THEN now ELSE born[k]]

MaxTime == (StartSlot + MaxSlots) * Interval - 1
Orders == rangeOrders(TKeys \ {<< >>})

\* ------------------------------------------------------------- ttl: actions
\* The table adds no lock of its own; in this specification each handler
\* runs without another handler between its calls on the underlying store.

TTLInsert(t, k, v) ==
    /\ component = "ttl" /\ t \in tables
    /\ \E f \in FaultPoints(2) :
       \E r \in {ttlInsert(db, t, k, v, now, f)} :
              /\ db' = r.db
              /\ born' = Born(r.db, IF k # << >> /\ f # 1 THEN {k} ELSE {})
              /\ tlast' = TCall("Insert", t, k, v, r.err, << >>, db, r.db)
    /\ UNCHANGED <<component, rrVars, now, tables, sched, nextTick, ctxDone, faults, built, flight>>

TTLGet(t, k) ==
    /\ component = "ttl" /\ t \in tables
    /\ \E f \in FaultPoints(1) :
       \E r \in {ttlGet(db, t, k, f)} :
              tlast' = TCall("Get", t, k, << >>, r.err, r.out, db, db)
    /\ UNCHANGED <<component, rrVars, now, db, tables, sched, nextTick, ctxDone, faults, built, flight, born>>

TTLDelete(t, k) ==
    /\ component = "ttl" /\ t \in tables
    /\ \E f \in FaultPoints(1) :
       \E r \in {ttlDelete(db, t, k, f)} :
              /\ db' = r.db
              /\ born' = Born(r.db, {})
              /\ tlast' = TCall("Delete", t, k, << >>, r.err, << >>, db, r.db)
    /\ UNCHANGED <<component, rrVars, now, tables, sched, nextTick, ctxDone, faults, built, flight>>

TTLSize(t) ==
    /\ component = "ttl" /\ t \in tables
    /\ \E f \in FaultPoints(1) :
       \E r \in {ttlSize(db, t, f)} :
              tlast' = TCall("Size", t, << >>, << >>, r.err, r.out, db, db)
    /\ UNCHANGED <<component, rrVars, now, db, tables, sched, nextTick, ctxDone, faults, built, flight, born>>

TTLIterator(t) ==
    /\ component = "ttl" /\ t \in tables
    /\ tlast' = TCall("Iterator", t, << >>, << >>, ErrNil, ttlIterator(db, t), db, db)
    /\ UNCHANGED <<component, rrVars, now, db, tables, sched, nextTick, ctxDone, faults, built, flight, born>>

\* runPruneOnInterval: select takes the case <-ticker.C.  A tick has been
\* sent; ctx.Done() may be closed as well, select then takes either case.
PruneOnTick(t) ==
    /\ component = "ttl" /\ t \in tables
    /\ sched[t] = "running"
    /\ now >= nextTick[t]
    /\ \E ord \in Orders :
       \E f \in FaultPoints(sweep(db, t, now, 0, ord).n) :
       \E r \in {sweep(db, t, now, f, ord)} :
              /\ db' = r.db
              /\ sched' = [sched EXCEPT ![t] = r.sched]
              /\ born' = Born(r.db, {})
              /\ tlast' = [TCall("prune", t, << >>, << >>, r.err, r.pointer, db, r.db)
                               EXCEPT !.slots = r.slots]
    /\ nextTick' = [nextTick EXCEPT ![t] = tickAfter(@, now)]
    /\ UNCHANGED <<component, rrVars, now, tables, ctxDone, faults, built, flight>>

\* runPruneOnInterval: select takes the case <-ctx.Done() and returns.
PruneOnDone(t) ==
    /\ component = "ttl" /\ t \in tables
    /\ sched[t] = "running"
    /\ ctxDone[t]
    /\ sched' = [sched EXCEPT ![t] = "returned"]
    /\ UNCHANGED <<component, rrVars, now, db, tables, nextTick, ctxDone, faults, built, flight, born, tlast>>

\* The owner of the context cancels it.
Cancel(t) ==
    /\ component = "ttl" /\ t \in tables
    /\ ~ctxDone[t]
    /\ ctxDone' = [ctxDone EXCEPT ![t] = TRUE]
    /\ UNCHANGED <<component, rrVars, now, db, tables, sched, nextTick, faults, built, flight, born, tlast>>

\* Time passes, up to the moment limit.
TickTo(limit) ==
    /\ component = "ttl"
    /\ now < limit
    /\ now' = now + 1
    /\ UNCHANGED <<component, rrVars, db, tables, sched, nextTick, ctxDone, faults, built, flight, born, tlast>>

Tick == TickTo(MaxTime)

\* New(ctx, database, t, Interval) over the store db, for a name that has
\* no table yet or whose earlier table has stopped sweeping (its context was
\* cancelled, or the process ended and starts again).  New panics when
\* prunePointer fails.
Construct(t) ==
    /\ component = "ttl"
    /\ IF t \in tables THEN sched[t] # "running" ELSE TRUE
    /\ (IF t \in tables THEN built[t].n ELSE 0) < MaxBuilds
    /\ \E f \in FaultPoints(New(db, t, now, 0).n) :
       \E r \in {New(db, t, now, f)} :
          /\ db' = r.db
          /\ sched' = [x \in tables \cup {t} |->
                         IF x # t THEN sched[x]
                         ELSE IF r.err # ErrNil THEN "panicked" ELSE "running"]
          /\ built' = [x \in tables \cup {t} |->
                         IF x # t THEN built[x]
                         ELSE [n |-> (IF t \in tables THEN built[t].n ELSE 0) + 1,
                               pointer |-> r.pointer]]
          /\ tlast' = TCall("New", t, << >>, << >>, r.err, r.pointer, db, r.db)
    /\ tables' = tables \cup {t}
    /\ nextTick' = [x \in tables \cup {t} |-> IF x = t THEN now + Interval ELSE nextTick[x]]
    /\ ctxDone' = [x \in tables \cup {t} |-> IF x = t THEN FALSE ELSE ctxDone[x]]
    /\ UNCHANGED <<component, rrVars, now, faults, flight, born>>

\* New(ctx, database, "A", Interval) at some moment of the slot StartSlot,
\* over an empty store that does not fail.
InitTTL ==
    /\ component = "ttl"
    /\ cap = 0 /\ data = << >> /\ iterMade = FALSE /\ iter = NoIter
    /\ snap = << >> /\ yielded = << >> /\ lastNext = "none" /\ last = NoCall
    /\ now \in (StartSlot * Interval)..(StartSlot * Interval + Interval - 1)
    /\ db = New(<< >>, "A", now, 0).db
    /\ tables = {"A"}
    /\ sched = [t \in {"A"} |-> "running"]
    /\ nextTick = [t \in {"A"} |-> now + Interval]
    /\ ctxDone = [t \in {"A"} |-> FALSE]
    /\ faults = FALSE
    /\ born = << >>
    /\ tlast = NoTCall
    /\ flight = NoFlight
    /\ built = [t \in {"A"} |-> [n |-> 1, pointer |-> slotNo(now) - 1]]

\* The calls that change the store, the sweeps of a scheduler whose context
\* is not cancelled, and the clock.
NextTTL ==
    \/ \E t \in TableNames, k \in TKeys, v \in Values : TTLInsert(t, k, v)
    \/ \E t \in TableNames, k \in TKeys : TTLDelete(t, k)
    \/ \E t \in TableNames : PruneOnTick(t)
    \/ Tick

SpecTTL == InitTTL /\ [][NextTTL]_vars

MaxLifeTime == (StartSlot + MaxLifeSlots) * Interval - 1

\* A store that a table "B" has used before: it holds B's pointer, and a
\* value with its marker that B has inserted at the moment tm.
UsedStore(tm) == ttlInsert(New(<< >>, "B", tm, 0).db, "B", <<"b">>, <<2>>, tm, 0).db

\* No table has been constructed yet; the store is empty or has been used.
InitLife ==
    /\ component = "ttl"
    /\ cap = 0 /\ data = << >> /\ iterMade = FALSE /\ iter = NoIter
    /\ snap = << >> /\ yielded = << >> /\ lastNext = "none" /\ last = NoCall
    /\ now \in (StartSlot * Interval)..(StartSlot * Interval + Interval - 1)
    /\ db \in {<< >>, UsedStore(now)}
    /\ tables = {}
    /\ sched = << >>
    /\ nextTick = << >>
    /\ ctxDone = << >>
    /\ faults = FALSE
    /\ born = << >>
    /\ tlast = NoTCall
    /\ flight = NoFlight
    /\ built = << >>

\* The table "A": constructed, swept, cancelled and constructed again over
\* the store, while a caller inserts.
NextLife ==
    \/ Construct("A")
    \/ Cancel("A")
    \/ PruneOnDone("A")
    \/ PruneOnTick("A")
    \/ TTLInsert("A", <<"a">>, <<1>>)
    \/ TickTo(MaxLifeTime)

SpecLife == InitLife /\ [][NextLife]_vars

\* New(ctx, database, "A", Interval) and New(ctx, database, "B", Interval)
\* at one moment over one empty store.
InitTwo ==
    /\ component = "ttl"
    /\ cap = 0 /\ data = << >> /\ iterMade = FALSE /\ iter = NoIter
    /\ snap = << >> /\ yielded = << >> /\ lastNext = "none" /\ last = NoCall
    /\ now \in (StartSlot * Interval)..(StartSlot * Interval + Interval - 1)
    /\ db = New(New(<< >>, "A", now, 0).db, "B", now, 0).db
    /\ tables = TableNames
    /\ sched = [t \in TableNames |-> "running"]
    /\ nextTick = [t \in TableNames |-> now + Interval]
    /\ ctxDone = [t \in TableNames |-> FALSE]
    /\ faults = FALSE
    /\ born = << >>
    /\ tlast = NoTCall
    /\ flight = NoFlight
    /\ built = [t \in TableNames |-> [n |-> 1, pointer |-> slotNo(now) - 1]]

\* Two tables over one store, their callers using the same logical key.
NextTwo ==
    \/ \E t \in TableNames, v \in Values : TTLInsert(t, <<"a">>, v)
    \/ \E t \in TableNames : TTLDelete(t, <<"a">>)
    \/ \E t \in TableNames : TTLGet(t, <<"a">>)
    \/ \E t \in TableNames : TTLSize(t)
    \/ \E t \in TableNames : TTLIterator(t)
    \/ \E t \in TableNames : PruneOnTick(t)
    \/ Tick

SpecTwo == InitTwo /\ [][NextTwo]_vars

\* New(ctx, database, "A", Interval) over an empty store; New has met no
\* error, any later call on the store may return one.
InitFaults ==
    /\ component = "ttl"
    /\ cap = 0 /\ data = << >> /\ iterMade = FALSE /\ iter = NoIter
    /\ snap = << >> /\ yielded = << >> /\ lastNext = "none" /\ last = NoCall
    /\ now \in (StartSlot * Interval)..(StartSlot * Interval + Interval - 1)
    /\ db = New(<< >>, "A", now, 0).db
    /\ tables = {"A"}
    /\ sched = [t \in {"A"} |-> "running"]
    /\ nextTick = [t \in {"A"} |-> now + Interval]
    /\ ctxDone = [t \in {"A"} |-> FALSE]
    /\ faults = TRUE
    /\ born = << >>
    /\ tlast = NoTCall
    /\ flight = NoFlight
    /\ built = [t \in {"A"} |-> [n |-> 1, pointer |-> slotNo(now) - 1]]

\* The table over a store whose calls may fail, its callers using one key.
NextFaults ==
    \/ \E v \in Values : TTLInsert("A", <<"a">>, v)
    \/ TTLDelete("A", <<"a">>)
    \/ TTLGet("A", <<"a">>)
    \/ TTLSize("A")
    \/ PruneOnTick("A")
    \/ Tick

SpecFaults == InitFaults /\ [][NextFaults]_vars

\* ------------------------------------------- ttl: calls that run in steps
\* The table takes no lock: a caller's Insert and the sweep of the scheduler
\* are two goroutines whose calls on the underlying store interleave.  One
\* Insert and one sweep are followed here, in a store that does not fail.

\* Insert: ttlTable.db.Insert(ttlTable.keyWithPrefix(key), value)
InsertValue(t, k, v) ==
    /\ component = "ttl" /\ t \in tables
    /\ k # << >>
    /\ flight.ins.pc = "idle"
    /\ db' = dbInsert(db, keyWithPrefix(k), v)
    /\ born' = Born(db', {k})
    /\ flight' = [flight EXCEPT !.ins = [pc |-> "slot", table |-> t, key |-> k]]
    /\ UNCHANGED <<component, rrVars, now, tables, sched, nextTick, ctxDone, faults, built, tlast>>

\* Insert: slot := ttlTable.slotNo(time.Now())
InsertSlot ==
    /\ component = "ttl"
    /\ flight.ins.pc = "slot"
    /\ flight' = [flight EXCEPT !.ins = [pc |-> "marker", table |-> @.table, key |-> @.key,
                                          slot |-> slotNo(now)]]
    /\ UNCHANGED <<component, rrVars, now, db, tables, sched, nextTick, ctxDone, faults, built, born, tlast>>

\* Insert: ttlTable.db.Insert(ttlTable.keyWithSlotPrefix(key, slot), []byte{})
InsertMarker ==
    /\ component = "ttl"
    /\ flight.ins.pc = "marker"
    /\ db' = dbInsert(db, keyWithSlotPrefix(flight.ins.table, flight.ins.key, flight.ins.slot), << >>)
    /\ flight' = [flight EXCEPT !.ins = [pc |-> "idle"]]
    /\ UNCHANGED <<component, rrVars, now, tables, sched, nextTick, ctxDone, faults, built, born, tlast>>

\* runPruneOnInterval: case <-ticker.C, pointer, err := ttlTable.prunePointer()
SweepBegin(t) ==
    /\ component = "ttl" /\ t \in tables
    /\ sched[t] = "running"
    /\ now >= nextTick[t]
    /\ flight.sw.pc = "idle"
    /\ \E pp \in {prunePointer(t, St(db), now, 0)} :
          /\ db' = pp.st.db
          /\ flight' = [flight EXCEPT !.sw = [pc |-> "cutoff", table |-> t, pointer |-> pp.pointer]]
    /\ nextTick' = [nextTick EXCEPT ![t] = tickAfter(@, now)]
    /\ UNCHANGED <<component, rrVars, now, tables, sched, ctxDone, faults, built, born, tlast>>

\* prune: newSlotToDelete := ...slotNo(time.Now().Add(-pruneInterval)); slot := pointer + 1
SweepCutoff ==
    /\ component = "ttl"
    /\ flight.sw.pc = "cutoff"
    /\ flight' = [flight EXCEPT !.sw = [pc |-> "loop", table |-> @.table, slot |-> @.pointer + 1,
                                         newSlotToDelete |-> cutoff(now)]]
    /\ UNCHANGED <<component, rrVars, now, db, tables, sched, nextTick, ctxDone, faults, built, born, tlast>>

\* prune: one round of the outer loop, slot <= newSlotToDelete
SweepSlot ==
    /\ component = "ttl"
    /\ flight.sw.pc = "loop"
    /\ flight.sw.slot <= flight.sw.newSlotToDelete
    /\ \E ord \in Orders :
       \E r \in {pruneKeys(flight.sw.table, St(db), flight.sw.slot,
                            inOrder(dbIterator(db, keyWithSlotPrefix(flight.sw.table, << >>,
                                                                     flight.sw.slot)), ord), 0)} :
          /\ db' = r.db
          /\ born' = Born(r.db, {})
    /\ flight' = [flight EXCEPT !.sw.slot = @ + 1]
    /\ UNCHANGED <<component, rrVars, now, tables, sched, nextTick, ctxDone, faults, built, tlast>>

\* prune: the loop has ended; db.Insert(keyWithSlotPrefix(PrunePointerKey, 0), newSlotToDelete)
SweepEnd ==
    /\ component = "ttl"
    /\ flight.sw.pc = "loop"
    /\ flight.sw.slot > flight.sw.newSlotToDelete
    /\ db' = dbInsert(db, keyWithSlotPrefix(flight.sw.table, PrunePointerKey, 0),
                      MarshalBinary(flight.sw.newSlotToDelete))
    /\ flight' = [flight EXCEPT !.sw = [pc |-> "idle"]]
    /\ UNCHANGED <<component, rrVars, now, tables, sched, nextTick, ctxDone, faults, built, born, tlast>>

NextRace ==
    \/ \E t \in TableNames, k \in TKeys, v \in Values : InsertValue(t, k, v)
    \/ InsertSlot
    \/ InsertMarker
    \/ \E t \in TableNames : SweepBegin(t)
    \/ SweepCutoff
    \/ SweepSlot
    \/ SweepEnd
    \/ Tick

\* One table, its callers' Inserts and its sweeps, call by call.
SpecRace == InitTTL /\ [][NextRace]_vars

\* ------------------------------------------------------------ rrdb: actions
\* Every method takes rrdb.mu for its whole body (Lock/RLock, deferred
\* unlock), so the calls of concurrent callers are serialised: each is one
\* atomic step.  The empty-key test of Insert runs before the lock and reads
\* no shared state.

rrdbInsert(k, v) ==
    /\ component = "rrdb"
    /\ \E deleteKey \in firstOfRange(data, cap) :
          LET r == insert(data, cap, k, v, deleteKey)
          IN  /\ data' = r.data
              /\ last' = Call("Insert", k, v, r.err, nilBytes, data, r.data)
    /\ UNCHANGED <<component, cap, iterMade, iter, snap, yielded, lastNext, ttlVars>>

rrdbGet(k) ==
    /\ component = "rrdb"
    /\ LET r == get(data, k)
       IN  last' = Call("Get", k, nilBytes, r.err, r.out, data, data)
    /\ UNCHANGED <<component, cap, data, iterMade, iter, snap, yielded, lastNext, ttlVars>>

rrdbDelete(k) ==
    /\ component = "rrdb"
    /\ data' = delete(data, k)
    /\ last' = Call("Delete", k, nilBytes, ErrNil, nilBytes, data, data')
    /\ UNCHANGED <<component, cap, iterMade, iter, snap, yielded, lastNext, ttlVars>>

rrdbSize ==
    /\ component = "rrdb"
    /\ last' = Call("Size", "", nilBytes, ErrNil, len(data), data, data)
    /\ UNCHANGED <<component, cap, data, iterMade, iter, snap, yielded, lastNext, ttlVars>>

rrdbIterator ==
    /\ component = "rrdb"
    /\ \E order \in rangeOrders(DOMAIN data) : iter' = newIterator(data, order)
    /\ iterMade' = TRUE
    /\ snap' = data
    /\ yielded' = << >>
    /\ lastNext' = "none"
    /\ last' = Call("Iterator", "", nilBytes, ErrNil, nilBytes, data, data)
    /\ UNCHANGED <<component, cap, data, ttlVars>>

\* One turn of the caller's loop `for iter.Next() { iter.Key(); iter.Value() }`:
\* Next, and when it returns true the pair the body reads.
iterNext ==
    /\ component = "rrdb"
    /\ iterMade
    /\ iter.index < Len(iter.keys) + MaxOverrun
    /\ LET r == next(iter)
       IN  /\ iter' = r.iter
           /\ lastNext' = IF r.ok THEN "true" ELSE "false"
           /\ yielded' = IF r.ok
                         THEN Append(yielded, <<key(r.iter).out, value(r.iter).out>>)
                         ELSE yielded
           /\ last' = Call("Next", "", nilBytes, ErrNil, r.ok, data, data)
    /\ UNCHANGED <<component, cap, data, iterMade, snap, ttlVars>>

iterKey ==
    /\ component = "rrdb"
    /\ iterMade
    /\ LET r == key(iter)
       IN  last' = Call("Key", "", nilBytes, r.err, r.out, data, data)
    /\ UNCHANGED <<component, cap, data, iterMade, iter, snap, yielded, lastNext, ttlVars>>

iterValue ==
    /\ component = "rrdb"
    /\ iterMade
    /\ LET r == value(iter)
       IN  last' = Call("Value", "", nilBytes, r.err, r.out, data, data)
    /\ UNCHANGED <<component, cap, data, iterMade, iter, snap, yielded, lastNext, ttlVars>>

\* rrdb.New(cap): an empty map.  No TTL table exists.
InitRR ==
    /\ component = "rrdb"
    /\ cap \in 0..MaxCap
    /\ data = << >>
    /\ iterMade = FALSE
    /\ iter = NoIter
    /\ snap = << >>
    /\ yielded = << >>
    /\ lastNext = "none"
    /\ last = NoCall
    /\ now = 0
    /\ db = << >>
    /\ tables = {}
    /\ sched = << >>
    /\ nextTick = << >>
    /\ ctxDone = << >>
    /\ faults = FALSE
    /\ born = << >>
    /\ tlast = NoTCall
    /\ flight = NoFlight
    /\ built = << >>

\* The methods of the store / of the store and of its iterator.
NextStore ==
    \/ \E k \in Keys, v \in Values : rrdbInsert(k, v)
    \/ \E k \in Keys : rrdbGet(k)
    \/ \E k \in Keys : rrdbDelete(k)
    \/ rrdbSize

NextRR ==
    \/ NextStore
    \/ rrdbIterator
    \/ iterNext
    \/ iterKey
    \/ iterValue

\* The bounded store with its iterator.
Spec == InitRR /\ [][NextRR]_vars

\* Either store, bounded or TTL, under the calls that act on its contents.
SpecStores == (InitRR \/ InitTTL) /\ [][NextStore \/ NextTTL]_vars

\* ------------------------------------------------------------ rrdb: claims
Entries(d) == {<<k, d[k]>> : k \in DOMAIN d}
Min(a, b) == IF a < b THEN a ELSE b
IsInsert == component = "rrdb" /\ last.op = "Insert"
\* The step is a call of Insert with a non-empty key / of Delete.
InsertStep == component = "rrdb" /\ last'.op = "Insert" /\ last'.key # ""
DeleteStep == component = "rrdb" /\ last'.op = "Delete"

\* C1: in a store built with capacity C >= 1 the number of entries is between
\* 0 and C after every operation, and Size() returns a number in that range.
C1_SizeWithinCapacity ==
    (component = "rrdb" /\ cap >= 1) =>
        /\ len(data) >= 0
        /\ len(data) <= cap
        /\ last.op = "Size" => (last.out = len(data) /\ last.out \in 0..cap)

\* An Insert of a new key into a full store has just returned.
C1_Witness ==
    /\ IsInsert /\ cap >= 1 /\ last.err = ErrNil
    /\ last.full /\ ~last.had
    /\ len(data) = cap

\* C2: right after a successful Insert(k, v) with non-empty k, Get(k) returns
\* v with no error, whatever the store held before, a full store included.
C2_GetAfterInsert ==
    (IsInsert /\ cap >= 1 /\ last.key # "") =>
        /\ last.err = ErrNil
        /\ get(data, last.key) = [err |-> ErrNil, out |-> last.value]

\* The Insert found the store full and the key absent, so it evicted.
C2_Witness ==
    /\ IsInsert /\ cap >= 2 /\ last.key # ""
    /\ last.full /\ ~last.had /\ last.lost # {}
    /\ get(data, last.key).out = last.value

\* C3 (as claimed): Insert(k, v) with k already present leaves Size() as it
\* was, a full store included, and loses no entry other than k.
C3_OverwriteStep ==
    (InsertStep /\ cap >= 1 /\ last'.key \in DOMAIN data) =>
        /\ len(data') = len(data)
        /\ \A k \in DOMAIN data \ {last'.key} : k \in DOMAIN data' /\ data'[k] = data[k]

C3_OverwriteKeepsSize == [][C3_OverwriteStep]_vars

\* C4: an Insert of an absent key into a store holding exactly C >= 1
\* entries leaves C entries: the new key with its value, all previous entries
\* but exactly one, each with its value.  An Insert of an absent key leaves
\* min(size + 1, C) entries, so more than C distinct keys leave exactly C.
C4_InsertAbsentStep ==
    (InsertStep /\ cap >= 1 /\ last'.key \notin DOMAIN data) =>
        /\ len(data') = Min(len(data) + 1, cap)
        /\ last'.key \in DOMAIN data' /\ data'[last'.key] = last'.value
        /\ \A k \in (DOMAIN data) \cap (DOMAIN data') : data'[k] = data[k]
        /\ len(data) = cap =>
              /\ len(data') = cap
              /\ Cardinality((DOMAIN data) \ (DOMAIN data')) = 1
              /\ DOMAIN data' = ((DOMAIN data) \cap (DOMAIN data')) \cup {last'.key}
        /\ len(data) < cap => DOMAIN data \subseteq DOMAIN data'

C4_EvictsExactlyOne == [][C4_InsertAbsentStep]_vars

\* A full store of capacity 2 has just taken a third key.
C4_Witness ==
    /\ IsInsert /\ cap = 2 /\ last.key # ""
    /\ last.full /\ ~last.had
    /\ Cardinality(last.lost) = 1
    /\ len(data) = 2

\* C5: the iterator yields entries of the store as it was when Iterator() was
\* called, each at most once, and all of them once Next() has returned false;
\* this holds whatever Insert and Delete did to the store since the call.
C5_IteratorIsSnapshot ==
    (component = "rrdb" /\ iterMade) =>
        /\ \A i \in 1..Len(yielded) : yielded[i] \in Entries(snap)
        /\ \A i, j \in 1..Len(yielded) : yielded[i][1] = yielded[j][1] => i = j
        /\ lastNext = "false" =>
              /\ {yielded[i] : i \in 1..Len(yielded)} = Entries(snap)
              /\ Len(yielded) = len(snap)

\* The loop has run to its end over a two-entry snapshot while the store was
\* changed under it: one snapshot key overwritten, another deleted.
C5_Witness ==
    /\ component = "rrdb" /\ iterMade /\ lastNext = "false"
    /\ Len(yielded) = 2
    /\ \E k \in DOMAIN snap : k \in DOMAIN data /\ data[k] # snap[k]
    /\ \E k \in DOMAIN snap : k \notin DOMAIN data

\* C6: Key() and Value() succeed exactly when the last Next() returned true;
\* before the first Next() and after a Next() that returned false they
\* return IndexOutOfRange; after a Next() that returned false every later
\* Next() on the iterator returns false.
C6_KeyValueState ==
    (component = "rrdb" /\ last.op \in {"Key", "Value"}) =>
        /\ last.err = ErrNil <=> lastNext = "true"
        /\ last.err # ErrNil => last.err = ErrIndexOutOfRange
        /\ (last.err = ErrNil /\ last.op = "Key") => last.out = yielded[Len(yielded)][1]
        /\ (last.err = ErrNil /\ last.op = "Value") => last.out = yielded[Len(yielded)][2]

C6_NextStaysFalse ==
    (lastNext = "false" /\ last'.op = "Next") => (lastNext' = "false" /\ last'.out = FALSE)

C6_IteratorStateMachine == []C6_KeyValueState /\ [][C6_NextStaysFalse]_vars

\* Value() called after a second Next() past the end of a non-empty snapshot.
C6_Witness ==
    /\ component = "rrdb" /\ last.op = "Value" /\ last.err = ErrIndexOutOfRange
    /\ Len(iter.keys) >= 1
    /\ iter.index > Len(iter.keys)
    /\ lastNext = "false"

\* C8: Delete(k) returns no error whether or not k is present; Get(k) then
\* returns NotFound, and keeps doing so until an Insert of k; every entry
\* with another key is as it was.
C8_DeleteStep ==
    DeleteStep =>
        /\ last'.err = ErrNil
        /\ get(data', last'.key).err = ErrNotFound
        /\ \A k \in Keys \ {last'.key} : get(data', k) = get(data, k)

C8_AbsentUntilInsert ==
    \A k \in Keys :
        (component = "rrdb" /\ get(data, k).err = ErrNotFound /\ get(data', k).err = ErrNil)
            => (last'.op = "Insert" /\ last'.key = k)

C8_Delete == [][C8_DeleteStep /\ C8_AbsentUntilInsert]_vars

\* A present key has just been deleted from a store that holds another.
C8_Witness ==
    /\ component = "rrdb" /\ last.op = "Delete"
    /\ last.had /\ last.lost = {last.key}
    /\ len(data) >= 1

\* ----------------------------------------------------- both stores: claims
\* C7: Insert with the empty key returns EmptyKey and changes nothing: the
\* bounded store keeps its contents and size, also when it is full, and the
\* TTL table writes neither a value nor a marker to the underlying store.
C7_EmptyKeyStep ==
    /\ (component = "rrdb" /\ last'.op = "Insert" /\ last'.key = "") =>
          /\ last'.err = ErrEmptyKey
          /\ data' = data
          /\ len(data') = len(data)
    /\ (component = "ttl" /\ tlast'.op = "Insert" /\ tlast'.key = << >>) =>
          /\ tlast'.err = ErrEmptyKey
          /\ db' = db

C7_EmptyKeyRejected == [][C7_EmptyKeyStep]_vars

\* Insert("", v) has just been refused by a full bounded store.
C7_Witness ==
    /\ component = "rrdb" /\ cap >= 1 /\ len(data) = cap
    /\ last.op = "Insert" /\ last.key = "" /\ last.err = ErrEmptyKey
    /\ last.full /\ last.lost = {}

\* ------------------------------------------------------------- ttl: claims
\* The step is a sweep of table t: the scheduler has taken a tick.
SweepStep(t) ==
    component = "ttl" /\ t \in tables /\ tlast'.op = "prune" /\ tlast'.table = t
        /\ nextTick'[t] # nextTick[t]

\* The pointer the store d holds for table t.
PersistedPointer(d, t) == UnmarshalBinary(d[keyWithSlotPrefix(t, PrunePointerKey, 0)]).p

SlotRange == (StartSlot - 1)..(StartSlot + MaxSlots)

\* C9: when the store holds a marker of key k at a slot S above the pointer
\* (k was inserted in slot S, the pointer being S - 1 or less), a sweep that
\* runs at a time now with slotNumber(now - interval) >= S, that is
\* now >= (S + 1) * interval, and returns no error removes k's value and
\* that marker, and Get(k) then returns NotFound.
C9_SweepStepDeletes ==
    \A t \in TableNames, k \in TKeys, S \in SlotRange :
        ( /\ SweepStep(t) /\ tlast'.err = ErrNil
          /\ keyWithSlotPrefix(t, k, S) \in DOMAIN db
          /\ PersistedPointer(db, t) < S
          /\ now >= (S + 1) * Interval )
        =>
        ( /\ keyWithSlotPrefix(t, k, S) \notin DOMAIN db'
          /\ keyWithPrefix(k) \notin DOMAIN db'
          /\ ttlGet(db', t, k, 0).err = ErrKeyNotFound )

C9_SweepDeletesExpired == [][C9_SweepStepDeletes]_vars

\* A sweep has just removed the values and the markers of two keys.
C9_Witness ==
    /\ component = "ttl" /\ tlast.op = "prune" /\ tlast.err = ErrNil
    /\ \A k \in TKeys \ {<< >>} :
          /\ keyWithPrefix(k) \in tlast.lost
          /\ \E S \in SlotRange : keyWithSlotPrefix("A", k, S) \in tlast.lost

\* C10 (as claimed): no sweep deletes the value of a key earlier than one
\* full interval after the Insert that wrote it.
C10_SweepStepSpares ==
    \A t \in TableNames, k \in DOMAIN born :
        (SweepStep(t) /\ keyWithPrefix(k) \in DOMAIN db /\ keyWithPrefix(k) \notin DOMAIN db')
            => now >= born[k] + Interval

C10_LivesOneInterval == [][C10_SweepStepSpares]_vars

\* C11 (as claimed): in every state, also between the two writes of an
\* Insert and between the steps of a sweep, no marker of a logical key is
\* in a slot at or below the persisted pointer.
C11_NoMarkerAtOrBelowPointer ==
    component = "ttl" =>
        \A t \in tables, k \in TKeys \ {<< >>}, S \in SlotRange :
            keyWithSlotPrefix(t, k, S) \in DOMAIN db => S > PersistedPointer(db, t)

\* The key under which table t keeps its pointer.
PointerKey(t) == keyWithSlotPrefix(t, PrunePointerKey, 0)

\* C12: the clock never going back, the persisted pointer of a table never
\* decreases: whatever a step writes (New that initialises it, a sweep, New
\* that constructs the table again), a pointer that is stored stays stored
\* and its new value is >= the one before.
C12_PointerStep ==
    \A t \in TableNames :
        (component = "ttl" /\ PointerKey(t) \in DOMAIN db) =>
            /\ PointerKey(t) \in DOMAIN db'
            /\ PersistedPointer(db', t) >= PersistedPointer(db, t)

C12_PointerNeverDecreases == [][C12_PointerStep]_vars

\* A sweep advanced the pointer, the table was constructed again and found
\* it, and a sweep of the new table has advanced it further.
C12_Witness ==
    /\ component = "ttl" /\ "A" \in tables
    /\ built["A"].n >= 2
    /\ built["A"].pointer > StartSlot - 1
    /\ tlast.op = "prune" /\ tlast.err = ErrNil
    /\ PersistedPointer(db, "A") > built["A"].pointer

\* The step is New for the name t.
ConstructStep(t) ==
    component = "ttl" /\ tlast'.op = "New" /\ tlast'.table = t /\ built' # built

\* C13: a table constructed over a store that holds the pointer C (a sweep
\* has persisted it) reads C back, and a sweep that returns no error reads
\* the persisted pointer C and enumerates exactly the slots C + 1 .. cutoff
\* in ascending order, each once, where cutoff is the last slot that ended
\* one interval ago or earlier; it then persists cutoff.
C13_ResumeStep ==
    \A t \in TableNames :
        /\ (ConstructStep(t) /\ PointerKey(t) \in DOMAIN db) =>
              /\ tlast'.err = ErrNil
              /\ tlast'.out = PersistedPointer(db, t)
              /\ PersistedPointer(db', t) = PersistedPointer(db, t)
        /\ (SweepStep(t) /\ tlast'.err = ErrNil) =>
              LET C == PersistedPointer(db, t)
                  c == (now \div Interval) - 1
              IN  /\ tlast'.out = C
                  /\ tlast'.slots = [i \in 1..(c - C) |-> C + i]
                  /\ PersistedPointer(db', t) = c

C13_ResumesAfterPointer == [][C13_ResumeStep]_vars

\* A sweep had advanced the pointer to C; the table was constructed again
\* and its first sweep since has enumerated two slots or more from C + 1.
C13_Witness ==
    /\ component = "ttl" /\ "A" \in tables
    /\ built["A"].n >= 2
    /\ built["A"].pointer > StartSlot - 1
    /\ tlast.op = "prune" /\ tlast.err = ErrNil
    /\ tlast.out = built["A"].pointer
    /\ Len(tlast.slots) >= 2
    /\ tlast.slots[1] = built["A"].pointer + 1

\* C14 (as claimed): an Insert, a Delete or a sweep on table t changes
\* nothing of what Get, Size and Iterator return on another table u of the
\* same store, also for a logical key both tables use.
C14_IsolationStep ==
    \A t \in TableNames, u \in TableNames :
        ( /\ component = "ttl" /\ t # u /\ t \in tables /\ u \in tables
          /\ tlast'.table = t /\ tlast'.op \in {"Insert", "Delete", "prune"} )
        =>
        ( /\ \A k \in TKeys : ttlGet(db', u, k, 0) = ttlGet(db, u, k, 0)
          /\ ttlSize(db', u, 0) = ttlSize(db, u, 0)
          /\ ttlIterator(db', u) = ttlIterator(db, u) )

C14_TablesIsolated == [][C14_IsolationStep]_vars

\* C15 (as claimed): a sweep in which a call on the underlying store fails
\* leaves the scheduler running, ready to sweep again on the next tick.
C15_FailedSweepStep ==
    \A t \in TableNames :
        (SweepStep(t) /\ tlast'.err # ErrNil) => sched'[t] = "running"

C15_SchedulerSurvivesFailure == [][C15_FailedSweepStep]_vars

\* C16 (as claimed): once the context of a table's scheduler is cancelled
\* the scheduler starts no sweep, also when a tick is due at that moment.
C16_NoSweepStep ==
    \A t \in TableNames : SweepStep(t) => ~ctxDone[t]

C16_NoSweepAfterCancel == [][C16_NoSweepStep]_vars

\* C17: New for a name whose pointer the store does not hold persists the
\* pointer slotNumber(now) - 1 and changes nothing else; a sweep at that
\* same instant then has its cutoff equal to the pointer, enumerates no
\* slot and leaves the store as it is.  New for a name whose pointer the
\* store holds leaves the store, and so the pointer, unchanged.
C17_ConstructStep ==
    \A t \in TableNames :
        (ConstructStep(t) /\ tlast'.err = ErrNil) =>
            IF PointerKey(t) \notin DOMAIN db
            THEN /\ PersistedPointer(db', t) = (now \div Interval) - 1
                 /\ DOMAIN db' = DOMAIN db \cup {PointerKey(t)}
                 /\ \A x \in DOMAIN db : db'[x] = db[x]
                 /\ ((now - Interval) \div Interval) = PersistedPointer(db', t)
                 /\ \A ord \in Orders :
                       LET r == sweep(db', t, now, 0, ord)
                       IN  r.err = ErrNil /\ r.slots = << >> /\ r.db = db'
            ELSE db' = db

C17_NewTableHasNoBacklog == [][C17_ConstructStep]_vars

\* New has just constructed the first table "A" over a store that held
\* another table's value and marker and no pointer for "A".
C17_Witness ==
    /\ component = "ttl" /\ "A" \in tables
    /\ tlast.op = "New" /\ tlast.table = "A" /\ tlast.err = ErrNil
    /\ built["A"].n = 1
    /\ PersistedPointer(db, "A") = slotNo(now) - 1
    /\ keyWithPrefix(<<"b">>) \in DOMAIN db
    /\ \E S \in SlotRange : keyWithSlotPrefix("B", <<"b">>, S) \in DOMAIN db

\* The step is Insert(k, v) on table t with a non-empty key k.
TTLInsertStep(t, k, v) ==
    /\ component = "ttl" /\ now' = now /\ k # << >>
    /\ tlast'.op = "Insert" /\ tlast'.table = t /\ tlast'.key = k /\ tlast'.value = v
    /\ flight' = flight

\* The logical keys with a marker of table t in the store d, with the slot.
Markers(d, t) ==
    {<<k, S>> \in (TKeys \ {<< >>}) \X SlotRange : keyWithSlotPrefix(t, k, S) \in DOMAIN d}

\* C18: Insert(k, v) with non-empty k writes the value first and the marker
\* at slotNumber(now) after it.  When the value write fails, the error that
\* names the value insert is returned and the store is unchanged (no marker
\* written).  When the marker write fails, its error is returned, the value
\* v is stored and no marker has been added.  When both succeed, the value
\* v and a marker of k at the current slot exist, and nothing else changed.
C18_InsertStep ==
    \A t \in TableNames, k \in TKeys, v \in Values :
        TTLInsertStep(t, k, v) =>
            LET valueWritten == dbInsert(db, keyWithPrefix(k), v)
                slot == now \div Interval
            IN  /\ tlast'.err \in {ErrNil, ErrInsertingTTLData, ErrUnderlying}
                /\ tlast'.err = ErrInsertingTTLData => db' = db
                /\ tlast'.err = ErrUnderlying =>
                      /\ db' = valueWritten
                      /\ db'[keyWithPrefix(k)] = v
                      /\ Markers(db', t) = Markers(db, t)
                /\ tlast'.err = ErrNil =>
                      /\ db'[keyWithPrefix(k)] = v
                      /\ <<k, slot>> \in Markers(db', t)
                      /\ db' = dbInsert(valueWritten, keyWithSlotPrefix(t, k, slot), << >>)

C18_InsertPartialFailure == [][C18_InsertStep]_vars

\* The marker write of an Insert has failed: the value is stored and the
\* key has no marker in any slot.
C18_Witness ==
    /\ component = "ttl" /\ faults
    /\ tlast.op = "Insert" /\ tlast.key = <<"a">> /\ tlast.err = ErrUnderlying
    /\ keyWithPrefix(<<"a">>) \in DOMAIN db
    /\ db[keyWithPrefix(<<"a">>)] = tlast.value
    /\ \A S \in SlotRange : <<(<<"a">>), S>> \notin Markers(db, "A")

\* The step is Delete(k) on table t with a non-empty key k.
TTLDeleteStep(t, k) ==
    /\ component = "ttl" /\ now' = now /\ k # << >>
    /\ tlast'.op = "Delete" /\ tlast'.table = t /\ tlast'.key = k
    /\ flight' = flight

\* C19: Delete(k) returns no error, removes the value of k and nothing
\* else: every marker and the pointer stay as they are.  A sweep that later
\* reaches the slot S of a marker of k whose value is gone (S above the
\* pointer and at or below the cutoff) returns no error, removes the marker
\* and persists its cutoff as the pointer.
C19_DeleteThenSweepStep ==
    \A t \in TableNames, k \in TKeys :
        /\ TTLDeleteStep(t, k) =>
              /\ tlast'.err = ErrNil
              /\ keyWithPrefix(k) \notin DOMAIN db'
              /\ DOMAIN db' = (DOMAIN db) \ {keyWithPrefix(k)}
              /\ \A x \in DOMAIN db' : db'[x] = db[x]
              /\ Markers(db', t) = Markers(db, t)
              /\ PersistedPointer(db', t) = PersistedPointer(db, t)
        /\ \A S \in SlotRange :
              ( /\ SweepStep(t) /\ k # << >>
                /\ <<k, S>> \in Markers(db, t)
                /\ keyWithPrefix(k) \notin DOMAIN db
                /\ PersistedPointer(db, t) < S
                /\ now >= (S + 1) * Interval )
              =>
              ( /\ tlast'.err = ErrNil
                /\ <<k, S>> \notin Markers(db', t)
                /\ PersistedPointer(db', t) = (now \div Interval) - 1 )

C19_DeleteLeavesMarkerToSweep == [][C19_DeleteThenSweepStep]_vars

\* The first sweep of the table has removed the marker of a key whose
\* value a Delete had removed before.
C19_Witness ==
    /\ component = "ttl"
    /\ tlast.op = "prune" /\ tlast.err = ErrNil /\ tlast.out = StartSlot - 1
    /\ keyWithSlotPrefix("A", <<"a">>, StartSlot) \in tlast.lost
    /\ keyWithPrefix(<<"a">>) \notin tlast.lost
    /\ keyWithPrefix(<<"a">>) \notin DOMAIN db
    /\ PersistedPointer(db, "A") >= StartSlot

\* C20 (as claimed): when key k was inserted in slot S and again in a later
\* slot S2 (the store holds both markers and the value of the second
\* Insert), a sweep whose cutoff c has S <= c < S2 leaves the value of k in
\* place, and Get(k) after it returns the value of the second Insert.
C20_RenewedStep ==
    \A t \in TableNames, k \in DOMAIN born, S \in SlotRange, S2 \in SlotRange :
        LET c == (now \div Interval) - 1
        IN  ( /\ SweepStep(t) /\ tlast'.err = ErrNil
              /\ <<k, S>> \in Markers(db, t) /\ <<k, S2>> \in Markers(db, t)
              /\ keyWithPrefix(k) \in DOMAIN db
              /\ born[k] \div Interval = S2
              /\ S < S2 /\ S <= c /\ c < S2 )
            =>
            ( /\ keyWithPrefix(k) \in DOMAIN db'
              /\ ttlGet(db', t, k, 0) = [err |-> ErrNil, out |-> db[keyWithPrefix(k)]] )

C20_ReinsertRenews == [][C20_RenewedStep]_vars

====
